---- MODULE Spec2Model ----
(***************************************************************************)
(* The card store of src/crud.rs: DB::new, add_card, add_cards_batch,      *)
(* card_exists and due_today, run by concurrent callers against one        *)
(* SQLite database file.  Every await of the source is one step.           *)
(***************************************************************************)
EXTENDS Integers, Sequences, FiniteSets, TLC

(* ------------------------------ bounds -------------------------------- *)
NumCallers == 2
NumHashes == 2
MaxBatch == 2
MaxClock == 1
MaxDate == 1
MaxLimit == 2
MaxFaults == 1

(* -------------------------- program constants ------------------------- *)
\* .max_connections(5)
max_connections == 5
\* SQL NULL, and Option::None for card_limit
Null == -1

Callers == 1..NumCallers
Hashes == 1..NumHashes
Dates == 0..MaxDate
Limits == {Null} \cup (0..MaxLimit)

VARIABLES
    schema,     \* the cards table exists in the database file
    table,      \* committed rows of cards, in rowid order
    clock,      \* chrono::Utc::now()
    faults,     \* storage errors raised so far
    store,      \* store[p]: DB::new returned Ok(Self) to caller p
    pc,         \* pc[p]: the await caller p is suspended at
    arg,        \* arg[p]: the cards of the call in progress
    idx,        \* idx[p]: position of the batch loop
    now,        \* now[p]: the timestamp the call captured
    tx,         \* tx[p]: rows inserted in p's open transaction
    ret,        \* ret[p]: what p's last completed call returned
    pre,        \* the table when the last call started
    last,       \* the last completed call
    prev,       \* the completed call before it
    scripts,    \* how many times schema.sql was executed
    serial      \* no DB::new has yet run while another one was suspended

vars == <<schema, table, clock, faults, store, pc, arg, idx, now, tx, ret,
          pre, last, prev, scripts, serial>>
hist == <<pre, last, prev, scripts, serial>>

(* ------------------------------- data --------------------------------- *)
\* crate::card::Card, of which the store reads card_hash only
Card(h) == [card_hash |-> h]

\* a record written as if it had been reviewed once and scheduled for day 1
NewRowScheduled(h, t) ==
    [card_hash |-> h, added_at |-> t, last_reviewed_at |-> t,
     stability |-> 1, difficulty |-> 1, interval_raw |-> 1,
     interval_days |-> 1, due_date |-> 1, review_count |-> 1]

\* VALUES (?, ?, NULL, NULL, NULL, NULL, 0, NULL, 0)
NewRow(h, t) ==
    [card_hash |-> h, added_at |-> t, last_reviewed_at |-> Null,
     stability |-> Null, difficulty |-> Null, interval_raw |-> Null,
     interval_days |-> 0, due_date |-> Null, review_count |-> 0]

HashesOf(rows) == {rows[i].card_hash : i \in DOMAIN rows}
CountOf(rows, h) == Cardinality({i \in DOMAIN rows : rows[i].card_hash = h})

\* the card catalogs a caller supplies: each key maps to the card of that hash
CatalogOf(K) == [h \in K |-> Card(h)]
Catalogs == {CatalogOf(K) : K \in SUBSET Hashes}

\* the card lists a caller supplies
CardLists == UNION {[1..n -> Hashes] : n \in 0..MaxBatch}

\* what a call returns, with the inputs it was given
Ret(op, a, status) ==
    [op |-> op, arg |-> a, status |-> status, found |-> FALSE, created |-> FALSE,
     cards |-> <<>>, catalog |-> CatalogOf({}), limit |-> Null, today |-> 0]
NoRet == Ret("none", <<>>, "ok")

(* ------------------------ the database, as seen ----------------------- *)
\* the statement executed on the caller's transaction instead of on the pool
OwnTxView(p) == table \o tx[p]

\* a statement executed on the pool (&self.pool) reads what is committed
PoolView(p) == table

\* a statement executed on the transaction (&mut *tx) also reads its own rows
TxView(p) == table \o tx[p]

\* an existence check that wants more than one record: Ok(count > 1)
CardExistsTwice(rows, h) == CountOf(rows, h) > 1

\* SELECT COUNT(1) FROM cards WHERE card_hash = ?  ...  Ok(count > 0)
CardExistsIn(rows, h) == CountOf(rows, h) > 0

\* a cards table without the uniqueness constraint
NoUniqueViolation(rows, h) == FALSE

\* schema.sql: card_hash is the unique primary key of cards
UniqueViolation(rows, h) == h \in HashesOf(rows)

\* select count(*) from sqlite_master where type='table' AND name='cards'
probe_schema_exists == IF schema THEN "true" ELSE "false"

\* a probe that runs the script whenever it returned Ok
NeedsCreateAnyOk(probe) == probe # "err"

\* if let Ok(false) = table_exists
NeedsCreate(probe) == probe = "false"

\* what executing schema.sql returns: on a file that has the table already it
\* is an error (CREATE TABLE) or nothing (CREATE TABLE IF NOT EXISTS)
SchemaScript(exists) == IF exists THEN {"ok", "err"} ELSE {"ok"}

\* SQLite's write lock is free for p: no other connection holds uncommitted rows
LockFree(p) == \A q \in DOMAIN pc \ {p} : tx[q] = <<>>

\* callers holding a pool connection for an open transaction
InTx == {q \in DOMAIN pc : pc[q] \in {"batch_check", "batch_insert", "batch_commit"}}

\* the pool hands out a connection
PoolAvailable == Cardinality(InTx) < max_connections

\* a WHERE clause that compares with < and so misses the cards due today
IsDueStrict(r, today) == (r.due_date # Null /\ r.due_date < today) \/ r.due_date = Null

\* WHERE due_date <= ? OR due_date IS NULL
IsDue(r, today) == (r.due_date # Null /\ r.due_date <= today) \/ r.due_date = Null

SelectDue(rows, today) == SelectSeq(rows, LAMBDA r : IsDue(r, today))

\* cards.len() >= card_limit
LimitReached(cards, limit) == limit # Null /\ Len(cards) >= limit

\* the while loop of due_today over the streamed rows
RECURSIVE DueLoop(_, _, _, _, _)
DueLoop(rows, i, cards, catalog, limit) ==
    IF i > Len(rows) THEN cards
    ELSE IF rows[i].card_hash \notin DOMAIN catalog
         THEN DueLoop(rows, i + 1, cards, catalog, limit)
         ELSE LET pushed == Append(cards, catalog[rows[i].card_hash]) IN
              IF LimitReached(pushed, limit) THEN pushed
              ELSE DueLoop(rows, i + 1, pushed, catalog, limit)

\* a query that returns the card of every due row, known to the catalog or not
DueCardsAnyRow(rows, catalog, limit, today) ==
    [i \in DOMAIN SelectDue(rows, today) |-> Card(SelectDue(rows, today)[i].card_hash)]

DueCards(rows, catalog, limit, today) ==
    DueLoop(SelectDue(rows, today), 1, <<>>, catalog, limit)

(* ------------------------------ returning ----------------------------- *)
\* the call of p returns r; its locals and its transaction are dropped
Return(p, r) ==
    /\ pc' = [pc EXCEPT ![p] = "idle"]
    /\ ret' = [ret EXCEPT ![p] = r]
    /\ arg' = [arg EXCEPT ![p] = <<>>]
    /\ idx' = [idx EXCEPT ![p] = 0]
    /\ now' = [now EXCEPT ![p] = 0]
    /\ tx' = [tx EXCEPT ![p] = <<>>]

\* the call of p goes on to the await at, with cards a, position i, timestamp t
Goto(p, at, a, i, t) ==
    /\ pc' = [pc EXCEPT ![p] = at]
    /\ ret' = [ret EXCEPT ![p] = NoRet]
    /\ arg' = [arg EXCEPT ![p] = a]
    /\ idx' = [idx EXCEPT ![p] = i]
    /\ now' = [now EXCEPT ![p] = t]

\* the await after card i of the batch
AfterCard(a, i) == IF i + 1 > Len(a) THEN "batch_commit" ELSE "batch_check"

(* ------------------------------- DB::new ------------------------------ *)
\* open the pool and probe the schema; return at once unless the probe is Ok(false)
DB_new(p) ==
    /\ pc[p] = "idle"
    /\ IF NeedsCreate(probe_schema_exists)
       THEN /\ Goto(p, "new_create", <<>>, 0, 0)
            /\ UNCHANGED <<store, tx>>
       ELSE /\ Return(p, Ret("new", <<>>, "ok"))
            /\ store' = [store EXCEPT ![p] = TRUE]
    /\ UNCHANGED <<schema, table, clock, faults>>

\* sqlx::query(include_str!("schema.sql")).execute(&pool).await?
DB_new_create(p) ==
    /\ pc[p] = "new_create"
    /\ \E out \in SchemaScript(schema) :
          /\ Return(p, [Ret("new", <<>>, out) EXCEPT !.created = TRUE])
          /\ store' = [store EXCEPT ![p] = @ \/ out = "ok"]
    /\ schema' = TRUE
    /\ UNCHANGED <<table, clock, faults>>

(* ------------------------------ add_card ------------------------------ *)
\* if self.card_exists(card).await? { return Ok(()) }; let now = ...
add_card(p, h) ==
    /\ pc[p] = "idle" /\ store[p] /\ PoolAvailable
    /\ IF ~schema
       THEN Return(p, Ret("add_card", <<h>>, "err"))
       ELSE IF CardExistsIn(PoolView(p), h)
       THEN Return(p, Ret("add_card", <<h>>, "ok"))
       ELSE /\ Goto(p, "add_insert", <<h>>, 0, clock)
            /\ UNCHANGED tx
    /\ UNCHANGED <<schema, table, clock, faults, store>>

\* INSERT OR REPLACE: a present record is deleted and written anew
add_card_insert_replace(p) ==
    /\ pc[p] = "add_insert" /\ PoolAvailable /\ LockFree(p)
    /\ Return(p, Ret("add_card", arg[p], "ok"))
    /\ table' = Append(SelectSeq(table, LAMBDA r : r.card_hash # arg[p][1]),
                       NewRow(arg[p][1], now[p]))
    /\ UNCHANGED <<schema, clock, faults, store>>

\* an insert whose duplicate-key failure is suppressed instead of returned
add_card_insert_suppress(p) ==
    /\ pc[p] = "add_insert" /\ PoolAvailable /\ LockFree(p)
    /\ Return(p, Ret("add_card", arg[p], "ok"))
    /\ table' = IF UniqueViolation(PoolView(p), arg[p][1])
                THEN table
                ELSE Append(table, NewRow(arg[p][1], now[p]))
    /\ UNCHANGED <<schema, clock, faults, store>>

\* INSERT INTO cards ... .execute(&self.pool).await?
add_card_insert(p) ==
    /\ pc[p] = "add_insert" /\ PoolAvailable /\ LockFree(p)
    /\ IF UniqueViolation(PoolView(p), arg[p][1])
       THEN /\ Return(p, Ret("add_card", arg[p], "err"))
            /\ UNCHANGED table
       ELSE /\ Return(p, Ret("add_card", arg[p], "ok"))
            /\ table' = Append(table, NewRow(arg[p][1], now[p]))
    /\ UNCHANGED <<schema, clock, faults, store>>

(* --------------------------- add_cards_batch -------------------------- *)
\* let mut tx = self.pool.begin().await?; let now = ...
add_cards_batch(p, cards) ==
    /\ pc[p] = "idle" /\ store[p] /\ PoolAvailable
    /\ Goto(p, AfterCard(cards, 0), cards, 1, clock)
    /\ UNCHANGED <<schema, table, clock, faults, store, tx>>

\* if self.card_exists(card).await? { continue; }
add_cards_batch_check(p) ==
    /\ pc[p] = "batch_check" /\ PoolAvailable
    /\ IF ~schema
       THEN Return(p, Ret("add_cards_batch", arg[p], "err"))
       ELSE IF CardExistsIn(PoolView(p), arg[p][idx[p]])
       THEN /\ Goto(p, AfterCard(arg[p], idx[p]), arg[p], idx[p] + 1, now[p])
            /\ UNCHANGED tx
       ELSE /\ Goto(p, "batch_insert", arg[p], idx[p], now[p])
            /\ UNCHANGED tx
    /\ UNCHANGED <<schema, table, clock, faults, store>>

\* the insert executed on the pool: committed at once, outside the transaction
InsertOnPool(p, r) ==
    /\ tx' = tx
    /\ table' = Append(table, r)

\* .execute(&mut *tx): the row is written in the transaction, not yet committed
InsertInTx(p, r) ==
    /\ tx' = [tx EXCEPT ![p] = Append(@, r)]
    /\ table' = table

\* a timestamp computed anew for every card of the loop
FreshStamp(p) == clock

\* .bind(&now): the timestamp captured before the loop
BatchStamp(p) == now[p]

\* INSERT OR IGNORE: a present hash is skipped and the loop goes on
add_cards_batch_insert_ignore(p) ==
    /\ pc[p] = "batch_insert" /\ LockFree(p)
    /\ Goto(p, AfterCard(arg[p], idx[p]), arg[p], idx[p] + 1, now[p])
    /\ tx' = IF UniqueViolation(TxView(p), arg[p][idx[p]])
             THEN tx
             ELSE [tx EXCEPT ![p] = Append(@, NewRow(arg[p][idx[p]], BatchStamp(p)))]
    /\ UNCHANGED <<schema, table, clock, faults, store>>

\* INSERT INTO cards ... .execute(&mut *tx).await?
add_cards_batch_insert(p) ==
    /\ pc[p] = "batch_insert" /\ LockFree(p)
    /\ IF UniqueViolation(TxView(p), arg[p][idx[p]])
       THEN /\ Return(p, Ret("add_cards_batch", arg[p], "err"))
            /\ UNCHANGED table
       ELSE /\ Goto(p, AfterCard(arg[p], idx[p]), arg[p], idx[p] + 1, now[p])
            /\ InsertInTx(p, NewRow(arg[p][idx[p]], BatchStamp(p)))
    /\ UNCHANGED <<schema, clock, faults, store>>

\* tx.commit().await?; Ok(())
add_cards_batch_commit(p) ==
    /\ pc[p] = "batch_commit"
    /\ table' = table \o tx[p]
    /\ Return(p, Ret("add_cards_batch", arg[p], "ok"))
    /\ UNCHANGED <<schema, clock, faults, store>>

\* an insert finds the write lock held by another connection until it gives up
Busy(p) ==
    /\ pc[p] \in {"add_insert", "batch_insert"} /\ ~LockFree(p)
    /\ Return(p, Ret(IF pc[p] = "add_insert" THEN "add_card" ELSE "add_cards_batch",
                     arg[p], "err"))
    /\ UNCHANGED <<schema, table, clock, faults, store>>

\* a statement waits for a pool connection until the pool's acquire timeout
PoolTimeout(p) ==
    /\ pc[p] \in {"add_insert", "batch_check"} /\ ~PoolAvailable
    /\ Return(p, Ret(IF pc[p] = "add_insert" THEN "add_card" ELSE "add_cards_batch",
                     arg[p], "err"))
    /\ UNCHANGED <<schema, table, clock, faults, store>>

(* --------------------------- card_exists ------------------------------ *)
card_exists(p, h) ==
    /\ pc[p] = "idle" /\ store[p] /\ PoolAvailable
    /\ IF ~schema
       THEN Return(p, Ret("card_exists", <<h>>, "err"))
       ELSE Return(p, [Ret("card_exists", <<h>>, "ok") EXCEPT
                          !.found = CardExistsIn(PoolView(p), h)])
    /\ UNCHANGED <<schema, table, clock, faults, store>>

(* ----------------------------- due_today ------------------------------ *)
due_today(p, catalog, limit, today) ==
    /\ pc[p] = "idle" /\ store[p] /\ PoolAvailable
    /\ IF ~schema
       THEN Return(p, [Ret("due_today", <<>>, "err") EXCEPT
                          !.catalog = catalog, !.limit = limit, !.today = today])
       ELSE Return(p, [Ret("due_today", <<>>, "ok") EXCEPT
                          !.catalog = catalog, !.limit = limit, !.today = today,
                          !.cards = DueCards(PoolView(p), catalog, limit, today)])
    /\ UNCHANGED <<schema, table, clock, faults, store>>

(* ------------------------------ the clock ----------------------------- *)
Tick ==
    /\ clock < MaxClock
    /\ clock' = clock + 1
    /\ UNCHANGED <<schema, table, faults, store, pc, arg, idx, now, tx, ret>>

(* --------------------------- storage errors --------------------------- *)
\* the directory, the file or the pool cannot be prepared: the ? of DB::new
DB_new_fail(p) ==
    /\ pc[p] = "idle" /\ faults < MaxFaults
    /\ faults' = faults + 1
    /\ Return(p, Ret("new", <<>>, "err"))
    /\ UNCHANGED <<schema, table, clock, store>>

\* probe_schema_exists returns Err: it is not Ok(false), so nothing is created
DB_new_probe_err(p) ==
    /\ pc[p] = "idle" /\ faults < MaxFaults
    /\ faults' = faults + 1
    /\ IF NeedsCreate("err")
       THEN /\ Goto(p, "new_create", <<>>, 0, 0)
            /\ UNCHANGED <<store, tx>>
       ELSE /\ Return(p, Ret("new", <<>>, "ok"))
            /\ store' = [store EXCEPT ![p] = TRUE]
    /\ UNCHANGED <<schema, table, clock>>

\* the first statement of a call fails: card_exists, pool.begin or the SELECT
FailCall(p, op, a) ==
    /\ pc[p] = "idle" /\ store[p] /\ faults < MaxFaults
    /\ faults' = faults + 1
    /\ Return(p, Ret(op, a, "err"))
    /\ UNCHANGED <<schema, table, clock, store>>

\* a later statement of a call fails; ? returns and an open transaction is dropped
FailStmt(p) ==
    /\ pc[p] # "idle" /\ faults < MaxFaults
    /\ faults' = faults + 1
    /\ Return(p, [Ret(CASE pc[p] = "new_create" -> "new"
                        [] pc[p] = "add_insert" -> "add_card"
                        [] OTHER -> "add_cards_batch", arg[p], "err")
                  EXCEPT !.created = (pc[p] = "new_create")])
    /\ UNCHANGED <<schema, table, clock, store>>

\* the calls whose first statement can fail, with their cards
FirstStatements ==
    {<<"add_card", <<h>>>> : h \in Hashes} \cup {<<"card_exists", <<h>>>> : h \in Hashes}
    \cup {<<"add_cards_batch", a>> : a \in CardLists} \cup {<<"due_today", <<>>>>}

(* ------------------------------ history ------------------------------- *)
\* a step of p that starts a call records the table, one that ends a call the call
Observe(p) ==
    /\ pre' = IF pc[p] = "idle" THEN table ELSE pre
    /\ IF pc'[p] = "idle"
       THEN last' = ret'[p] /\ prev' = last
       ELSE UNCHANGED <<last, prev>>
    /\ UNCHANGED <<scripts, serial>>

\* a step of DB::new by p: the script executions so far, and whether every
\* DB::new call so far began when no other one was between probe and create
ObserveNew(p) ==
    /\ scripts' = IF pc[p] = "new_create" THEN scripts + 1 ELSE scripts
    /\ serial' = (serial /\ (pc[p] = "idle" =>
                                \A q \in DOMAIN pc \ {p} : pc[q] # "new_create"))
    /\ UNCHANGED <<pre, last, prev>>

(* --------------------------- specifications --------------------------- *)
\* a row as an earlier run and the scheduler left it
StoredRow(h, d) == [NewRow(h, 0) EXCEPT !.due_date = d]

Orders ==
    {o \in UNION {[1..n -> Hashes] : n \in 0..NumHashes} :
        \A i, j \in DOMAIN o : i # j => o[i] # o[j]}

Tables ==
    UNION {{[i \in DOMAIN o |-> StoredRow(o[i], ds[i])] :
                ds \in [DOMAIN o -> Dates \cup {Null}]} : o \in Orders}

\* the tables whose rows are as registration wrote them
RegisteredTables == {[i \in DOMAIN o |-> NewRow(o[i], 0)] : o \in Orders}

InitCallers ==
    /\ clock = 0
    /\ faults = 0
    /\ store = [p \in Callers |-> FALSE]
    /\ pc = [p \in Callers |-> "idle"]
    /\ arg = [p \in Callers |-> <<>>]
    /\ idx = [p \in Callers |-> 0]
    /\ now = [p \in Callers |-> 0]
    /\ tx = [p \in Callers |-> <<>>]
    /\ ret = [p \in Callers |-> NoRet]
    /\ pre = <<>>
    /\ last = NoRet
    /\ prev = NoRet
    /\ scripts = 0
    /\ serial = TRUE

\* a fresh database file
Init ==
    /\ schema = FALSE
    /\ table = <<>>
    /\ InitCallers

\* concurrent callers, with storage errors
Next ==
    \/ Tick /\ UNCHANGED hist
    \/ \E p \in Callers : DB_new(p) /\ UNCHANGED hist
    \/ \E p \in Callers : DB_new_create(p) /\ UNCHANGED hist
    \/ \E p \in Callers, h \in Hashes : add_card(p, h) /\ UNCHANGED hist
    \/ \E p \in Callers : add_card_insert(p) /\ UNCHANGED hist
    \/ \E p \in Callers, a \in CardLists : add_cards_batch(p, a) /\ UNCHANGED hist
    \/ \E p \in Callers : add_cards_batch_check(p) /\ UNCHANGED hist
    \/ \E p \in Callers : add_cards_batch_insert(p) /\ UNCHANGED hist
    \/ \E p \in Callers : add_cards_batch_commit(p) /\ UNCHANGED hist
    \/ \E p \in Callers : Busy(p) /\ UNCHANGED hist
    \/ \E p \in Callers, h \in Hashes : card_exists(p, h) /\ UNCHANGED hist
    \/ \E p \in Callers, c \in Catalogs : due_today(p, c, Null, 0) /\ UNCHANGED hist
    \/ \E p \in Callers : DB_new_fail(p) /\ UNCHANGED hist
    \/ \E p \in Callers : DB_new_probe_err(p) /\ UNCHANGED hist
    \/ \E p \in Callers, f \in FirstStatements :
          FailCall(p, f[1], f[2]) /\ UNCHANGED hist
    \/ \E p \in Callers : FailStmt(p) /\ UNCHANGED hist

Spec == Init /\ [][Next]_vars

\* two callers initializing and registering single cards at once, no storage error
NextAdd ==
    \/ Tick /\ UNCHANGED hist
    \/ \E p \in Callers : DB_new(p) /\ ObserveNew(p)
    \/ \E p \in Callers : DB_new_create(p) /\ ObserveNew(p)
    \/ \E p \in Callers, h \in Hashes : add_card(p, h) /\ UNCHANGED hist
    \/ \E p \in Callers : add_card_insert(p) /\ UNCHANGED hist

SpecAdd == Init /\ [][NextAdd]_vars

\* a database file that earlier runs and the scheduler may have filled
InitDue ==
    /\ schema \in BOOLEAN
    /\ table \in (IF schema THEN Tables ELSE {<<>>})
    /\ InitCallers

\* a database file in which earlier runs may have registered cards
InitSeq ==
    /\ schema \in BOOLEAN
    /\ table \in (IF schema THEN RegisteredTables ELSE {<<>>})
    /\ InitCallers

\* one caller, one registration or initialization after the other, no storage
\* error
NextSeq ==
    \/ DB_new(1) /\ Observe(1)
    \/ DB_new_create(1) /\ Observe(1)
    \/ \E h \in Hashes : add_card(1, h) /\ Observe(1)
    \/ add_card_insert(1) /\ Observe(1)
    \/ \E a \in CardLists : add_cards_batch(1, a) /\ Observe(1)
    \/ add_cards_batch_check(1) /\ Observe(1)
    \/ add_cards_batch_insert(1) /\ Observe(1)
    \/ add_cards_batch_commit(1) /\ Observe(1)

SpecSeq == InitSeq /\ [][NextSeq]_vars

\* one caller querying a database file that earlier runs may have filled
NextDue ==
    \/ DB_new(1) /\ UNCHANGED hist
    \/ DB_new_create(1) /\ UNCHANGED hist
    \/ \E h \in Hashes : add_card(1, h) /\ UNCHANGED hist
    \/ add_card_insert(1) /\ UNCHANGED hist
    \/ \E h \in Hashes : card_exists(1, h) /\ UNCHANGED hist
    \/ \E c \in Catalogs, k \in Limits, d \in Dates :
          due_today(1, c, k, d) /\ UNCHANGED hist

SpecDue == InitDue /\ [][NextDue]_vars

\* one caller registering cards in a fresh store and querying it on any day
NextFresh ==
    \/ Tick /\ UNCHANGED hist
    \/ DB_new(1) /\ UNCHANGED hist
    \/ DB_new_create(1) /\ UNCHANGED hist
    \/ \E h \in Hashes : add_card(1, h) /\ UNCHANGED hist
    \/ add_card_insert(1) /\ UNCHANGED hist
    \/ \E a \in CardLists : add_cards_batch(1, a) /\ UNCHANGED hist
    \/ add_cards_batch_check(1) /\ UNCHANGED hist
    \/ add_cards_batch_insert(1) /\ UNCHANGED hist
    \/ add_cards_batch_commit(1) /\ UNCHANGED hist
    \/ \E c \in Catalogs, k \in Limits, d \in Dates :
          due_today(1, c, k, d) /\ UNCHANGED hist

SpecFresh == Init /\ [][NextFresh]_vars

\* as many callers as the pool has connections, sharing one initialized store
PoolCallers == 1..max_connections

InitPool ==
    /\ schema = TRUE
    /\ table = <<>>
    /\ clock = 0
    /\ faults = 0
    /\ store = [p \in PoolCallers |-> TRUE]
    /\ pc = [p \in PoolCallers |-> "idle"]
    /\ arg = [p \in PoolCallers |-> <<>>]
    /\ idx = [p \in PoolCallers |-> 0]
    /\ now = [p \in PoolCallers |-> 0]
    /\ tx = [p \in PoolCallers |-> <<>>]
    /\ ret = [p \in PoolCallers |-> NoRet]
    /\ pre = <<>>
    /\ last = NoRet
    /\ prev = NoRet
    /\ scripts = 0
    /\ serial = TRUE

\* concurrent batches of one card on the shared pool, no storage error
NextPool ==
    \/ \E p \in PoolCallers : add_cards_batch(p, <<1>>) /\ UNCHANGED hist
    \/ \E p \in PoolCallers : add_cards_batch_check(p) /\ UNCHANGED hist
    \/ \E p \in PoolCallers : add_cards_batch_insert(p) /\ UNCHANGED hist
    \/ \E p \in PoolCallers : add_cards_batch_commit(p) /\ UNCHANGED hist
    \/ \E p \in PoolCallers : Busy(p) /\ UNCHANGED hist
    \/ \E p \in PoolCallers : PoolTimeout(p) /\ UNCHANGED hist

SpecPool == InitPool /\ [][NextPool]_vars

(* ------------------------------- claims ------------------------------- *)
Range(s) == {s[i] : i \in DOMAIN s}

\* two registrations in a row with the same cards have just completed
SameTwice ==
    /\ pc[1] = "idle"
    /\ last.op \in {"add_card", "add_cards_batch"}
    /\ prev.op = last.op
    /\ prev.arg = last.arg

\* C1: add_card(h) twice in a row, or add_cards_batch with the same list twice
\* in a row: both calls return success, every registered hash has exactly one
\* record, and the second call leaves the table as it found it.
C1_SequentialIdempotence ==
    SameTwice =>
        /\ prev.status = "ok"
        /\ last.status = "ok"
        /\ \A h \in Range(last.arg) : CountOf(table, h) = 1
        /\ table = pre

\* C2: a batch returns success and commits exactly one record for every hash
\* of its list, also for a hash that occurs in the list more than once.
C2_BatchSkipsPresent ==
    (pc[1] = "idle" /\ last.op = "add_cards_batch") =>
        /\ last.status = "ok"
        /\ \A h \in Range(last.arg) : CountOf(table, h) = 1

\* C10: a DB::new run by a caller that an earlier DB::new already returned a
\* store to finds the cards table: it does not go on to the schema script, it
\* returns success at once, and the table and its records stay as they were.
C10_InitIdempotent ==
    [][(pc[1] = "idle" /\ store[1] /\ (pc'[1] = "new_create" \/ ret'[1].op = "new")) =>
          /\ pc'[1] = "idle"
          /\ ret'[1].status = "ok"
          /\ ~ret'[1].created
          /\ schema /\ schema'
          /\ table' = table]_vars

\* a second DB::new returned after records were registered under the first
C10_Witness ==
    /\ pc[1] = "idle" /\ store[1]
    /\ last.op = "new" /\ last.status = "ok" /\ ~last.created
    /\ prev.op = "add_cards_batch" /\ prev.status = "ok"
    /\ \E i \in DOMAIN table : table[i].added_at = 0 /\ table[i].due_date = Null
    /\ Len(table) = NumHashes

\* the hashes of the records that are due on day d and that catalog c knows
Eligible(c, d) ==
    {h \in DOMAIN c : \E i \in DOMAIN table :
        /\ table[i].card_hash = h
        /\ (table[i].due_date = Null \/ (table[i].due_date # Null /\ table[i].due_date <= d))}

\* the last call of caller 1 was a due_today that returned its cards
DueReturned == pc[1] = "idle" /\ ret[1].op = "due_today" /\ ret[1].status = "ok"

\* C4: due_today without a limit returns the card of hash h if and only if the
\* table has a record of h whose due_date is null or not after the current date
\* and h is a key of the catalog.
C4_DueSet ==
    (DueReturned /\ ret[1].limit = Null) =>
        \A h \in Hashes :
            Card(h) \in Range(ret[1].cards) <=> h \in Eligible(ret[1].catalog, ret[1].today)

\* a query that returned a card due exactly today and left out one due later
C4_Witness ==
    /\ DueReturned /\ ret[1].limit = Null
    /\ Len(ret[1].cards) = 1
    /\ \E i, j \in DOMAIN table :
          /\ table[i].due_date = ret[1].today
          /\ ret[1].cards[1] = Card(table[i].card_hash)
          /\ table[j].due_date # Null /\ table[j].due_date > ret[1].today
          /\ table[j].card_hash \in DOMAIN ret[1].catalog

\* C5: with a card_limit k, 0 included, due_today returns at most k cards.
C5_LimitUpperBound ==
    (DueReturned /\ ret[1].limit # Null) => Len(ret[1].cards) <= ret[1].limit

\* C6: with a card_limit k, due_today returns exactly k cards when more than k
\* records are eligible, and all the eligible ones when at most k are; records
\* that the catalog does not know are not counted.
C6_LimitExact ==
    (DueReturned /\ ret[1].limit # Null) =>
        LET n == Cardinality(Eligible(ret[1].catalog, ret[1].today)) IN
        /\ n > ret[1].limit => Len(ret[1].cards) = ret[1].limit
        /\ n <= ret[1].limit =>
              {c.card_hash : c \in Range(ret[1].cards)}
                  = Eligible(ret[1].catalog, ret[1].today)

BatchPcs == {"batch_check", "batch_insert", "batch_commit"}

\* the hashes of the rows written in open transactions
Uncommitted == UNION {HashesOf(tx[q]) : q \in DOMAIN pc}

\* C3: a batch that ends in an error leaves the committed table without any of
\* the rows it inserted, whichever statement failed; the committed table only
\* ever changes by the one row of an add_card insert or by all the rows of one
\* batch at its successful commit, and the rows of an open batch are all absent.
C3_BatchAtomic ==
    [][/\ \A p \in Callers :
             (pc[p] \in BatchPcs /\ pc'[p] = "idle" /\ ret'[p].status = "err") =>
                 /\ ret'[p].op = "add_cards_batch"
                 /\ table' = table
                 /\ HashesOf(tx[p]) \cap HashesOf(table') = {}
                 /\ tx'[p] = <<>>
       /\ table' # table =>
             \E p \in Callers :
                 /\ pc'[p] = "idle" /\ ret'[p].status = "ok"
                 /\ \/ pc[p] = "add_insert" /\ Len(table') = Len(table) + 1
                    \/ pc[p] = "batch_commit" /\ table' = table \o tx[p]
       /\ Uncommitted \cap HashesOf(table) = {}]_vars

\* a batch failed on its second insert after its first insert was written, and
\* the committed table has no row of it
C3_Witness ==
    \E p \in Callers :
        /\ pc[p] = "idle" /\ faults = 0
        /\ ret[p].op = "add_cards_batch" /\ ret[p].status = "err"
        /\ ret[p].arg = <<1, 1>>
        /\ table = <<>>

\* C7: the committed table holds at most one record per card_hash, whatever
\* the interleaving of add_card and add_cards_batch calls.
C7_UniqueHash == \A h \in Hashes : CountOf(table, h) <= 1

\* two add_card calls of the same hash both passed their existence check: one
\* inserted the record and the other was refused
C7_Witness ==
    \E p, q \in Callers :
        /\ p # q /\ faults = 0
        /\ pc[p] = "idle" /\ pc[q] = "idle"
        /\ ret[p] = Ret("add_card", <<1>>, "ok")
        /\ ret[q] = Ret("add_card", <<1>>, "err")
        /\ CountOf(table, 1) = 1

\* C8: card_exists and due_today, whoever runs them, report exactly the
\* committed rows: none of the rows of an open transaction and, after the
\* commit, all of them; the existence check of the batch itself included.
C8_Isolation ==
    [][\A p \in Callers :
          /\ (ret'[p] # ret[p] /\ ret'[p].op = "card_exists" /\ ret'[p].status = "ok") =>
                /\ ret'[p].found <=> ret'[p].arg[1] \in HashesOf(table)
                /\ ret'[p].arg[1] \in Uncommitted => ~ret'[p].found
          /\ (ret'[p] # ret[p] /\ ret'[p].op = "due_today" /\ ret'[p].status = "ok") =>
                /\ {c.card_hash : c \in Range(ret'[p].cards)}
                      = HashesOf(table) \cap DOMAIN ret'[p].catalog
                /\ {c.card_hash : c \in Range(ret'[p].cards)} \cap Uncommitted = {}
          /\ (pc[p] = "batch_check" /\ pc'[p] = "batch_insert") =>
                arg[p][idx[p]] \notin HashesOf(table)
          /\ (pc[p] = "batch_check" /\ pc'[p] # "idle" /\ idx'[p] = idx[p] + 1) =>
                arg[p][idx[p]] \in HashesOf(table)
          /\ (pc[p] = "batch_check" /\ pc'[p] # "batch_check" /\ pc'[p] # "idle"
                 /\ arg[p][idx[p]] \in HashesOf(tx[p])) =>
                pc'[p] = "batch_insert"]_vars

\* a caller was told that hash 1 does not exist while another caller's open
\* transaction holds the row of hash 1
C8_Witness ==
    \E p, q \in Callers :
        /\ p # q
        /\ pc[p] \in BatchPcs /\ 1 \in HashesOf(tx[p])
        /\ pc[q] = "idle"
        /\ ret[q] = Ret("card_exists", <<1>>, "ok")

\* C9: whenever DB::new returns a store, the cards table exists: a failed
\* probe or a failed schema creation makes DB::new return an error.
C9_InitSurfacesFailures ==
    \A p \in Callers :
        (pc[p] = "idle" /\ ret[p].op = "new" /\ ret[p].status = "ok") => schema

\* C11: a record whose card_hash is not a key of the catalog never appears in
\* the result of due_today and never makes it fail: the call returns Ok, and
\* every card it returns is the value the catalog holds for a key.
C11_CatalogMiss ==
    (pc[1] = "idle" /\ ret[1].op = "due_today") =>
        /\ ret[1].status = "ok"
        /\ \A i \in DOMAIN ret[1].cards :
              /\ ret[1].cards[i].card_hash \in DOMAIN ret[1].catalog
              /\ ret[1].cards[i] = ret[1].catalog[ret[1].cards[i].card_hash]

\* a query whose catalog lacks a record that is due, and that returned the
\* other record only
C11_Witness ==
    /\ DueReturned /\ ret[1].limit = Null
    /\ Len(table) = 2 /\ Len(ret[1].cards) = 1
    /\ \E i \in DOMAIN table :
          /\ table[i].card_hash \notin DOMAIN ret[1].catalog
          /\ table[i].due_date = Null \/ table[i].due_date <= ret[1].today

\* C12: on a pool of max_connections connections every started operation is
\* eventually given a connection and completes, however many run at once; in
\* particular there is no state in which every connection is held by a caller
\* that is itself waiting for a connection.
C12_PoolProgress ==
    ~(/\ Cardinality(InTx) = max_connections
      /\ \A q \in InTx : pc[q] = "batch_check")


\* C13: with no storage failure, an add_card call that reaches its insert ends
\* there without retrying: it returns Ok and appends one record when the hash is
\* still absent, and returns an error leaving the table alone when another call
\* inserted the hash after the existence check. So a call fails only when the
\* insert of another call for its hash succeeded, and a completed call, failed
\* or not, leaves exactly one record for its hash.
C13_ConcurrentAddCard ==
    /\ [](\A p \in Callers :
            (pc[p] = "idle" /\ ret[p].op = "add_card") =>
                CountOf(table, ret[p].arg[1]) = 1)
    /\ [][\A p \in Callers :
            (pc[p] = "add_insert" /\ pc'[p] # "add_insert") =>
                /\ pc'[p] = "idle"
                /\ IF arg[p][1] \in HashesOf(table)
                   THEN ret'[p].status = "err" /\ table' = table
                   ELSE /\ ret'[p].status = "ok"
                        /\ table' = Append(table, NewRow(arg[p][1], now[p]))]_vars
C13_Witness ==
    /\ pc[1] = "idle" /\ pc[2] = "idle"
    /\ ret[1] = Ret("add_card", <<2>>, "err")
    /\ ret[2] = Ret("add_card", <<2>>, "ok")
    /\ HashesOf(table) = {2}


\* C14: no step of DB::new, add_card, add_cards_batch, card_exists or due_today,
\* in any interleaving, removes or changes a committed record: the table after
\* the step begins with the table before it, every field of every record
\* (added_at included) as it was, and the cards table once created stays.
C14_InsertOnly ==
    [][/\ Len(table') >= Len(table)
       /\ SubSeq(table', 1, Len(table)) = table
       /\ schema => schema']_vars
C14_Witness ==
    /\ Len(table) = 2 /\ clock = 1
    /\ table[1].added_at = 0 /\ table[2].added_at = 1
    /\ \E p \in Callers :
          /\ pc[p] = "idle"
          /\ ret[p] = Ret("add_card", <<table[1].card_hash>>, "err")


\* C15: a record created by add_card or add_cards_batch has last_reviewed_at,
\* stability, difficulty, interval_raw and due_date null and interval_days and
\* review_count 0; so in a store filled by registrations only, due_today with no
\* limit returns, on every date, the card of every committed record whose hash
\* is a key of the catalog.
C15_FreshDue ==
    /\ \A i \in DOMAIN table :
          table[i] = NewRow(table[i].card_hash, table[i].added_at)
    /\ \A i \in DOMAIN tx[1] :
          /\ tx[1][i].last_reviewed_at = Null /\ tx[1][i].due_date = Null
          /\ tx[1][i].interval_days = 0 /\ tx[1][i].review_count = 0
    /\ (DueReturned /\ ret[1].limit = Null) =>
          \A i \in DOMAIN table :
              table[i].card_hash \in DOMAIN ret[1].catalog =>
                  \E j \in DOMAIN ret[1].cards :
                      ret[1].cards[j] = ret[1].catalog[table[i].card_hash]
C15_Witness ==
    /\ DueReturned /\ ret[1].limit = Null /\ ret[1].today = 0
    /\ Len(table) = 2 /\ table[1].added_at # table[2].added_at
    /\ Len(ret[1].cards) = 2


\* C16: as long as no DB::new call began while another one was between its
\* probe and its schema script, the script has been executed at most once on
\* the file, and exactly once as soon as one call returned a store; two calls
\* that overlap there can both execute it.
C16_InitRace ==
    serial =>
        /\ scripts <= 1
        /\ (\E p \in Callers : store[p]) => scripts = 1
C16_Witness ==
    /\ ~serial /\ scripts = 2
    /\ \A p \in Callers : pc[p] = "idle" /\ ret[p].op = "new" /\ ret[p].created


\* C17: a card_exists or due_today call, whether it succeeds or fails, leaves
\* the cards table, the schema and every open transaction as they were; and a
\* card_exists(h) that succeeds returns true exactly when a committed record
\* with card_hash h exists at that moment.
C17_ReadsPure ==
    [][\A p \in Callers :
          (pc[p] = "idle" /\ ret'[p] # ret[p]
              /\ ret'[p].op \in {"card_exists", "due_today"}) =>
                /\ table' = table /\ schema' = schema /\ tx' = tx
                /\ (ret'[p].op = "card_exists" /\ ret'[p].status = "ok") =>
                      (ret'[p].found = (CountOf(table', ret'[p].arg[1]) >= 1))]_vars
C17_Witness ==
    \E p, q \in Callers :
        /\ pc[p] = "idle" /\ pc[q] = "idle"
        /\ ret[p].op = "card_exists" /\ ret[p].status = "ok" /\ ret[p].found
        /\ ret[q].op = "due_today" /\ ret[q].status = "err"
        /\ HashesOf(table) = {ret[p].arg[1]}


\* C18: add_cards_batch reads the clock once, when it has opened its
\* transaction, keeps that value through the loop however the clock advances,
\* and stamps every record it inserts and commits with it; add_card reads the
\* clock in the call, after its existence check found the hash absent, and
\* stamps its record with that value.
C18_Timestamps ==
    [][\A p \in Callers :
          /\ (pc[p] = "idle" /\ pc'[p] \in BatchPcs) => now'[p] = clock
          /\ (pc[p] \in BatchPcs /\ pc'[p] \in BatchPcs) => now'[p] = now[p]
          /\ (pc[p] = "batch_insert" /\ pc'[p] \in {"batch_check", "batch_commit"}) =>
                /\ Len(tx'[p]) = Len(tx[p]) + 1
                /\ \A i \in DOMAIN tx'[p] : tx'[p][i].added_at = now[p]
          /\ (pc[p] = "batch_commit" /\ pc'[p] = "idle" /\ ret'[p].status = "ok") =>
                /\ Len(table') = Len(table) + Len(tx[p])
                /\ \A i \in DOMAIN tx[p] :
                      table'[Len(table) + i].added_at = now[p]
          /\ (pc[p] = "idle" /\ pc'[p] = "add_insert") =>
                /\ now'[p] = clock
                /\ arg'[p][1] \notin HashesOf(table)
          /\ (pc[p] = "add_insert" /\ pc'[p] = "idle" /\ ret'[p].status = "ok") =>
                /\ Len(table') = Len(table) + 1
                /\ table'[Len(table')].added_at = now[p]]_vars
C18_Witness ==
    \E p, q \in Callers :
        /\ p # q
        /\ pc[p] = "batch_commit" /\ now[p] = 0 /\ clock = 1
        /\ Len(tx[p]) = 1 /\ tx[p][1].added_at = 0
        /\ Len(table) = 1 /\ table[1].added_at = 1
        /\ ret[q] = Ret("add_card", <<table[1].card_hash>>, "ok")


\* the cards of the due records that the catalog knows, in the order of the table
DueInOrder ==
    LET rows == SelectSeq(table, LAMBDA r :
                    r.card_hash \in Eligible(ret[1].catalog, ret[1].today))
    IN  [i \in 1..Len(rows) |-> ret[1].catalog[rows[i].card_hash]]

\* C19: due_today returns the matching cards in the order in which their rows
\* are streamed from the table: the whole sequence without a limit, its prefix
\* cut at the limit with one, and no card_hash more than once.
C19_OrderedPrefix ==
    DueReturned =>
        LET n == IF ret[1].limit = Null \/ ret[1].limit > Len(DueInOrder)
                 THEN Len(DueInOrder) ELSE ret[1].limit
        IN  /\ ret[1].cards = SubSeq(DueInOrder, 1, n)
            /\ \A i, j \in DOMAIN ret[1].cards :
                  ret[1].cards[i].card_hash = ret[1].cards[j].card_hash => i = j


\* C20: when the hash that add_cards_batch is about to insert was committed by
\* an add_card after the batch checked it as absent, the insert fails: the
\* batch returns an error, its transaction is abandoned so that none of its
\* cards becomes visible, and the table, the record of add_card included, is
\* left as it was.
C20_BatchRace ==
    [][\A p \in Callers :
          (pc[p] = "batch_insert" /\ pc'[p] # "batch_insert"
              /\ arg[p][idx[p]] \in HashesOf(table)) =>
                /\ pc'[p] = "idle"
                /\ ret'[p] = Ret("add_cards_batch", arg[p], "err")
                /\ tx'[p] = <<>>
                /\ table' = table]_vars
C20_Witness ==
    \E p, q \in Callers :
        /\ p # q /\ faults = 0
        /\ pc[p] = "idle" /\ pc[q] = "idle"
        /\ ret[p] = Ret("add_cards_batch", <<1, 2>>, "err")
        /\ ret[q] = Ret("add_card", <<1>>, "ok")
        /\ HashesOf(table) = {1}

====
